---- MODULE Spec2Model ----
(***************************************************************************)
(* Model of the LOA generator (hamzak-27/LOA-app).                         *)
(*                                                                         *)
(*   src/app.py   the Streamlit app: LOAGenerator with failure handling,   *)
(*                create_word_document and the interactive main()          *)
(*   src/main.py  the command-line variant: LOAGenerator without failure   *)
(*                handling and the scripted main()                         *)
(*                                                                         *)
(* A text is a sequence of strings.  In the session part a text is a       *)
(* sequence of segments (the pieces an f-string joins); in the renderer    *)
(* part a text is a sequence of characters.  The empty text is <<>>.       *)
(* An Optional[str] is <<>> for None and <<t>> for the text t.             *)
(***************************************************************************)
EXTENDS Integers, Sequences, FiniteSets, TLC

\* ------------------------------------------------------------------ bounds
\* Session operations (generate_loa / edit_loa calls) in one behaviour.
MaxOps == 3
\* Calendar days the current date ranges over.
MaxDay == 2

\* ------------------------------------------------------------- Python values
None == <<>>
Some(t) == <<t>>
\* Python truthiness of an Optional[str]: None and "" are falsy.
Truthy(o) == o # None /\ o[1] # <<>>

\* date.strftime(fmt) of the day numbered d: the format applied to that day.
strftime(d, fmt) == <<fmt, ToString(d)>>

\* dict.get(key, default)
Get(params, key, default) == IF key \in DOMAIN params THEN params[key] ELSE default

\* ------------------------------------------------------------------ inputs
\* Form contents of the app (src/app.py:369-375): every key is always present.
AppParams ==
  { [address |-> a, to_whom |-> w, scenario |-> <<"Digital hoarding">>,
     specific_details |-> <<>>, yours_sincerely |-> <<"J. Doe">>] :
       a \in {<<>>, <<"FC Road, Pune">>}, w \in {<<>>} }
\* Edit instructions typed by the operator.
EditRequests == { <<"raise the amount">>, <<"add a clause">> }
\* Texts the text-generation service may return, the empty text included.
Responses == { <<>>, <<"Letter A">>, <<"Letter B">> }
\* str(e) of the exceptions the service call may raise.
Errors == { <<"timeout">> }

\* ----------------------------------------------------------------- app.py
\* LOAGenerator._create_system_prompt
create_system_prompt == <<"You are an expert in creating Letters of Authorization (LOAs) ...">>

\* LOAGenerator._construct_loa_prompt of app.py, on day d
construct_loa_prompt_app(params, d) ==
  <<"Generate a Letter of Authorization (LOA) with the following details: Date: ">>
    \o strftime(d, "%d.%m.%Y")
    \o <<" Recipient Address: ">> \o Get(params, "address", <<>>)
    \o <<" To: ">> \o Get(params, "to_whom", <<"To Whom It May Concern">>)
    \o <<" Scenario: ">> \o Get(params, "scenario", <<>>)
    \o <<" Specific Details to Include: ">> \o Get(params, "specific_details", <<>>)
    \o <<" Closing: Yours sincerely, ">> \o Get(params, "yours_sincerely", <<>>)
    \o <<" The LOA should follow a formal business letter format ...">>

Message(role, content) == [role |-> role, content |-> content]

\* A generate_loa that sends its request without the conversation so far.
GenerateMessages_NoHistory(prompt, history) ==
  <<Message("system", create_system_prompt), Message("user", prompt)>>

\* generate_loa: the message list of the API call
GenerateMessages(prompt, history) ==
  <<Message("system", create_system_prompt), Message("user", prompt)>> \o history

\* A generate_loa that appends to the history instead of replacing it.
StoredConversation_Appends(history, prompt, loa_content) ==
  history \o <<Message("user", prompt), Message("assistant", loa_content)>>

\* generate_loa: "Store the conversation"
StoredConversation(history, prompt, loa_content) ==
  <<Message("user", prompt), Message("assistant", loa_content)>>

\* An edit_loa without its guard.
NoCurrentLoa_Unguarded(cur) == FALSE

\* edit_loa: the guard "if not self.current_loa"
NoCurrentLoa(cur) == ~Truthy(cur)

NoLoaMessage == <<"No LOA has been generated yet. Please generate an LOA first.">>

\* edit_loa: the edit request message
EditMessage(edit_request) ==
  Message("user", <<"Edit the LOA according to the following request: ">>
                    \o edit_request \o <<" Return the complete edited LOA.">>)

\* An edit_loa that sends the edit request without the conversation before it.
EditMessages_OnlyRequest(history) ==
  <<Message("system", create_system_prompt), history[Len(history)]>>

\* edit_loa: the message list of the API call, from the history that already
\* holds the edit request
EditMessages(history) == <<Message("system", create_system_prompt)>> \o history

\* An edit_loa that does not store the response.
HistoryAfterEdit_Drops(history, edited_loa) == history

\* edit_loa: "Update the conversation history"
HistoryAfterEdit(history, edited_loa) == Append(history, Message("assistant", edited_loa))

\* An edit_loa that keeps the letter it had.
CurrentAfterEdit_Keeps(cur, edited_loa) == cur

\* An edit_loa that stores an empty response as no letter.
CurrentAfterEdit_Clears(cur, edited_loa) == IF edited_loa = <<>> THEN None ELSE Some(edited_loa)

\* edit_loa: "Update the current LOA"
CurrentAfterEdit(cur, edited_loa) == Some(edited_loa)

\* generate_loa: "Store the current LOA"
CurrentAfterGenerate(cur, loa_content) == Some(loa_content)

\* How an operation ends: with a return value, or with an exception raised.
Returned(t) == [kind |-> "returned", value |-> t]
Raised(e) == [kind |-> "raised", value |-> e]
NoReturn == [kind |-> "none", value |-> <<>>]

\* A generate_loa whose handler raises again.
GenerateFailure_Propagates(e) == Raised(e)

\* the except clauses of app.py
GenerateFailure(e) == Returned(<<"Error generating LOA: ">> \o e)
EditFailure(e) == Returned(<<"Error editing LOA: ">> \o e)

\* ---------------------------------------------------------------- main.py
\* A parameter value of main.py is a str or a datetime.date.
Str(t) == [kind |-> "str", text |-> t]
Date(d) == [kind |-> "date", day |-> d]
NoValue == [kind |-> "none"]
\* params.get(key)
PGet(params, key) == IF key \in DOMAIN params THEN params[key] ELSE NoValue
\* truthiness of a parameter value
PTruthy(v) == v.kind = "date" \/ (v.kind = "str" /\ v.text # <<>>)
\* the value as an f-string formats it
PStr(v) ==
  CASE v.kind = "str" -> v.text
    [] v.kind = "date" -> strftime(v.day, "%Y-%m-%d")
    [] OTHER -> <<"None">>

\* sep.join(parts)
RECURSIVE Join(_, _)
Join(parts, sep) ==
  IF parts = <<>> THEN <<>>
  ELSE IF Len(parts) = 1 THEN parts[1]
  ELSE parts[1] \o sep \o Join(Tail(parts), sep)

\* A segment that is added whatever the field holds.
IfField_Always(params, key, text) == text

\* the segment for one optional field: present only when the field is truthy
IfField(params, key, text) == IF PTruthy(PGet(params, key)) THEN text ELSE <<>>

\* An address that keeps a part for every field given, empty or not.
AddressParts_KeepsEmpty(params) ==
  LET part(key) == IF key \in DOMAIN params THEN <<PStr(params[key])>> ELSE <<>>
  IN part("company_name") \o part("address_line1") \o part("address_line2")
       \o part("address_line3") \o part("city")

\* _construct_loa_prompt: "Extract and format recipient address"
AddressParts(params) ==
  LET part(key) == IF PTruthy(PGet(params, key)) THEN <<PStr(params[key])>> ELSE <<>>
      city_pincode ==
        IfField(params, "city", PStr(PGet(params, "city")))
          \o IfField(params, "pincode", <<" - ">> \o PStr(PGet(params, "pincode")))
  IN part("company_name") \o part("address_line1") \o part("address_line2")
       \o part("address_line3")
       \o (IF city_pincode # <<>> THEN <<city_pincode>> ELSE <<>>)

recipient_address(params) == Join(AddressParts(params), <<"\n">>)

\* A date that is always the current one.
date_str_Today(params, d) == strftime(d, "%d.%m.%Y")

\* _construct_loa_prompt: "Format date"
date_str(params, d) ==
  IF PGet(params, "date").kind = "date" THEN strftime(params["date"].day, "%d.%m.%Y")
  ELSE IF PTruthy(PGet(params, "date")) THEN PStr(params["date"])
  ELSE strftime(d, "%d.%m.%Y")

\* params.get(key, default) as an f-string formats it
PGetStr(params, key, default) ==
  IF key \in DOMAIN params THEN PStr(params[key]) ELSE default

reference_number(params, d) ==
  PGetStr(params, "reference_number", <<"LOA/">> \o strftime(d, "%Y/%m/%d"))

\* A payment block whose annual increase line does not depend on the payment.
PaymentBlock_AnnualApart(params) ==
  (IF PTruthy(PGet(params, "payment_type")) /\ PTruthy(PGet(params, "payment_amount"))
   THEN <<"Payment Details: - Type: ">> \o PStr(params["payment_type"])
          \o <<" - Amount: ">> \o PStr(params["payment_amount"])
          \o <<" per ">> \o PGetStr(params, "payment_unit", <<"square foot">>)
   ELSE <<>>)
    \o IfField(params, "annual_increase",
          <<"- Annual Increase: ">> \o PStr(PGet(params, "annual_increase")) \o <<"%\n">>)

\* _construct_loa_prompt: the payment block with its nested annual increase
PaymentBlock(params) ==
  IF PTruthy(PGet(params, "payment_type")) /\ PTruthy(PGet(params, "payment_amount"))
  THEN <<"Payment Details: - Type: ">> \o PStr(params["payment_type"])
         \o <<" - Amount: ">> \o PStr(params["payment_amount"])
         \o <<" per ">> \o PGetStr(params, "payment_unit", <<"square foot">>)
         \o IfField(params, "annual_increase",
               <<"- Annual Increase: ">> \o PStr(PGet(params, "annual_increase")) \o <<"%\n">>)
  ELSE <<>>

\* LOAGenerator._construct_loa_prompt of main.py, on day d
construct_loa_prompt_main(params, d) ==
  <<"Generate a Letter of Authorization (LOA) with the following details: Reference Number: ">>
    \o reference_number(params, d)
    \o <<" Date: ">> \o date_str(params, d)
    \o <<" Recipient:\n">> \o recipient_address(params) \o <<"\n">>
    \o IfField(params, "contact_person",
          <<"Kind attention: ">> \o PStr(PGet(params, "contact_person")) \o <<"\n">>)
    \o IfField(params, "contact_email",
          <<"Email: ">> \o PStr(PGet(params, "contact_email")) \o <<"\n">>)
    \o IfField(params, "contact_phone",
          <<"Phone: ">> \o PStr(PGet(params, "contact_phone")) \o <<"\n">>)
    \o <<" Scenario: ">> \o PGetStr(params, "scenario", <<"outdoor advertising">>)
    \o <<" Subject: LOA for ">>
    \o PGetStr(params, "scenario_description", <<"Outdoor Advertisement">>)
    \o <<" at ">> \o PGetStr(params, "location", <<"[Location]">>)
    \o <<" Duration: ">> \o PGetStr(params, "duration", <<"5">>) \o <<" years ">>
    \o IfField(params, "size",
          <<"Size of Advertising Space: ">> \o PStr(PGet(params, "size")) \o <<"\n">>)
    \o PaymentBlock(params)
    \o IfField(params, "additional_terms",
          <<" Additional Terms: ">> \o PStr(PGet(params, "additional_terms")))
    \o <<" Signatory: Name: ">> \o PGetStr(params, "signatory_name", <<"[Signatory Name]">>)
    \o <<" Position: ">> \o PGetStr(params, "signatory_position", <<"[Position]">>)
    \o <<" Organization: ">> \o PGetStr(params, "organization", <<"[Organization]">>)
    \o IfField(params, "special_requirements",
          <<" Special Requirements: ">> \o PStr(PGet(params, "special_requirements")))
    \o <<" Base the style and format on typical outdoor advertising LOAs ...">>

\* the fields whose value is joined or concatenated as a str: a value that is
\* not a str makes "\n".join(address_parts) or "city_pincode +=" raise
JoinedFields == {"company_name", "address_line1", "address_line2", "address_line3", "city"}

\* how a call of _construct_loa_prompt(params) ends on day d
construct_loa_prompt_outcome(params, d) ==
  IF \E key \in JoinedFields : PGet(params, key).kind = "date"
  THEN Raised(<<"TypeError">>)
  ELSE Returned(construct_loa_prompt_main(params, d))

\* the example parameters of main(), built on day d
MainParams(d) ==
  [reference_number |-> Str(<<"RE/DIGITAL_HOARDING/LOA/2024/001">>),
   date |-> Date(d),
   company_name |-> Str(<<"Wallop Advertising Private Limited">>),
   address_line1 |-> Str(<<"Office No. 02">>),
   address_line2 |-> Str(<<"10th Floor, Pinnacle Corporate Park">>),
   address_line3 |-> Str(<<"Near Trade Center, BKC, Bandra (E)">>),
   city |-> Str(<<"Mumbai">>),
   pincode |-> Str(<<"400051">>),
   contact_person |-> Str(<<"Mr. Arshad Khan">>),
   contact_email |-> Str(<<"arshad.khan@wallopadvertising.com">>),
   contact_phone |-> Str(<<"9029006666">>),
   scenario |-> Str(<<"Digital Hoarding">>),
   scenario_description |-> Str(<<"Providing Digital Hoardings at Retail Outlet">>),
   location |-> Str(<<"FC Road, Pune City">>),
   size |-> Str(<<"20' X 20' = 400 Sq. Ft.">>),
   duration |-> Str(<<"5">>),
   payment_type |-> Str(<<"Quarterly">>),
   payment_amount |-> Str(<<"310">>),
   payment_unit |-> Str(<<"Sq Ft/Per Year">>),
   annual_increase |-> Str(<<"5">>),
   signatory_name |-> Str(<<"Territory Manager">>),
   signatory_position |-> Str(<<"Territory Manager (Retail)">>),
   organization |-> Str(<<"Example Corporation Ltd.">>)]

\* the example edit request of main()
MainEditRequest == <<"Change the payment amount to 350 per square foot ...">>

\* ------------------------------------------------------------------- state
VARIABLES
  variant,               \* "app": src/app.py runs; "main": src/main.py runs
  today,                 \* the current calendar day, datetime.date.today()
  conversation_history,  \* LOAGenerator.conversation_history
  current_loa,           \* LOAGenerator.current_loa, an Optional text
  sent,                  \* the message list of the latest API call
  apiCalls,              \* the number of API calls made
  ret,                   \* how the latest operation ended: its return value or a raise
  log,                   \* the operations called so far, with their outcomes
  produced,              \* the Turns of all successful operations, in call order
  st_current_loa,        \* st.session_state.current_loa of the app
  edit_mode,             \* st.session_state.edit_mode of the app
  preview,               \* the text the app's latest run previewed and rendered
  main_params,           \* the params dict of the script main()
  pc,                    \* the position of the script main()
  loa_content,           \* the argument of create_word_document
  doc                    \* the paragraphs of the Document it returns

vars == <<variant, today, conversation_history, current_loa, sent, apiCalls, ret,
          log, produced, st_current_loa, edit_mode, preview, main_params, pc,
          loa_content, doc>>

session == <<conversation_history, current_loa, sent, apiCalls, ret, log, produced>>
ui == <<st_current_loa, edit_mode, preview>>
document == <<loa_content, doc>>

Entry(op, outcome) == [op |-> op, outcome |-> outcome]

\* What the service does with one call: a completion text or an exception.
Outcomes == { [ok |-> TRUE, text |-> r] : r \in Responses }
              \cup { [ok |-> FALSE, text |-> e] : e \in Errors }

\* The days the clock may show when a call that began on day d returns.
Later(d) == { x \in d..(d + 1) : x <= MaxDay }

Init ==
  /\ variant \in {"app", "main"}
  /\ today = 1
  /\ conversation_history = <<>>
  /\ current_loa = None
  /\ sent = <<>>
  /\ apiCalls = 0
  /\ ret = NoReturn
  /\ log = <<>>
  /\ produced = <<>>
  /\ st_current_loa = None
  /\ edit_mode = FALSE
  /\ preview = None
  /\ main_params = <<>>
  /\ pc = IF variant = "main" THEN "start" ELSE "app"
  /\ loa_content = <<>>
  /\ doc = <<>>

\* ------------------------------------------------- LOAGenerator of app.py
\* generate_loa(params): the service answers out; the clock shows d2 when the
\* response is stored.
generate_loa_app(params, out, d2) ==
  LET prompt == construct_loa_prompt_app(params, today)
      stored == StoredConversation(conversation_history,
                                   construct_loa_prompt_app(params, d2), out.text)
  IN /\ sent' = GenerateMessages(prompt, conversation_history)
     /\ apiCalls' = apiCalls + 1
     /\ today' = d2
     /\ IF out.ok
        THEN /\ conversation_history' = stored
             /\ current_loa' = CurrentAfterGenerate(current_loa, out.text)
             /\ ret' = Returned(out.text)
             /\ log' = Append(log, Entry("generate_loa", "ok"))
             /\ produced' = produced \o stored
        ELSE /\ ret' = GenerateFailure(out.text)
             /\ log' = Append(log, Entry("generate_loa", "fail"))
             /\ UNCHANGED <<conversation_history, current_loa, produced>>

\* edit_loa(edit_request)
edit_loa_app(edit_request, out, d2) ==
  IF NoCurrentLoa(current_loa)
  THEN /\ ret' = Returned(NoLoaMessage)
       /\ log' = Append(log, Entry("edit_loa", "rejected"))
       /\ UNCHANGED <<conversation_history, current_loa, sent, apiCalls, produced, today>>
  ELSE LET history == Append(conversation_history, EditMessage(edit_request))
       IN /\ sent' = EditMessages(history)
          /\ apiCalls' = apiCalls + 1
          /\ today' = d2
          /\ IF out.ok
             THEN /\ conversation_history' = HistoryAfterEdit(history, out.text)
                  /\ current_loa' = CurrentAfterEdit(current_loa, out.text)
                  /\ ret' = Returned(out.text)
                  /\ log' = Append(log, Entry("edit_loa", "ok"))
                  /\ produced' = produced \o <<EditMessage(edit_request),
                                                Message("assistant", out.text)>>
             ELSE /\ conversation_history' = history
                  /\ ret' = EditFailure(out.text)
                  /\ log' = Append(log, Entry("edit_loa", "fail"))
                  /\ UNCHANGED <<current_loa, produced>>

\* ------------------------------------------------ LOAGenerator of main.py
\* generate_loa(params): no handler, an exception of the call propagates.
generate_loa_main(params, out, d2) ==
  LET prompt == construct_loa_prompt_main(params, today)
      stored == StoredConversation(conversation_history,
                                   construct_loa_prompt_main(params, d2), out.text)
  IN /\ sent' = GenerateMessages(prompt, conversation_history)
     /\ apiCalls' = apiCalls + 1
     /\ today' = d2
     /\ IF out.ok
        THEN /\ conversation_history' = stored
             /\ current_loa' = CurrentAfterGenerate(current_loa, out.text)
             /\ ret' = Returned(out.text)
             /\ log' = Append(log, Entry("generate_loa", "ok"))
             /\ produced' = produced \o stored
        ELSE /\ ret' = Raised(out.text)
             /\ log' = Append(log, Entry("generate_loa", "fail"))
             /\ UNCHANGED <<conversation_history, current_loa, produced>>

\* edit_loa(edit_request): no handler either.
edit_loa_main(edit_request, out, d2) ==
  IF NoCurrentLoa(current_loa)
  THEN /\ ret' = Returned(NoLoaMessage)
       /\ log' = Append(log, Entry("edit_loa", "rejected"))
       /\ UNCHANGED <<conversation_history, current_loa, sent, apiCalls, produced, today>>
  ELSE LET history == Append(conversation_history, EditMessage(edit_request))
       IN /\ sent' = EditMessages(history)
          /\ apiCalls' = apiCalls + 1
          /\ today' = d2
          /\ IF out.ok
             THEN /\ conversation_history' = HistoryAfterEdit(history, out.text)
                  /\ current_loa' = CurrentAfterEdit(current_loa, out.text)
                  /\ ret' = Returned(out.text)
                  /\ log' = Append(log, Entry("edit_loa", "ok"))
                  /\ produced' = produced \o <<EditMessage(edit_request),
                                                Message("assistant", out.text)>>
             ELSE /\ conversation_history' = history
                  /\ ret' = Raised(out.text)
                  /\ log' = Append(log, Entry("edit_loa", "fail"))
                  /\ UNCHANGED <<current_loa, produced>>

\* ------------------------------------------------------- main() of app.py
\* One run of the script shows the preview column from the session state.
Shown(st) == IF Truthy(st) THEN st ELSE None

\* The operator presses "Generate LOA".
ClickGenerate ==
  /\ variant = "app"
  /\ Len(log) < MaxOps
  /\ \E params \in AppParams, out \in Outcomes, d2 \in Later(today) :
       generate_loa_app(params, out, d2)
  /\ st_current_loa' = Some(ret'.value)
  /\ edit_mode' = FALSE
  /\ preview' = Shown(st_current_loa')
  /\ UNCHANGED <<document, variant, main_params, pc>>

\* The operator presses "Edit LOA".
ClickEditLOA ==
  /\ variant = "app"
  /\ Truthy(st_current_loa)
  /\ ~edit_mode
  /\ edit_mode' = TRUE
  /\ preview' = Shown(st_current_loa)
  /\ UNCHANGED <<document, variant, today, session, st_current_loa, main_params, pc>>

\* The operator presses "Apply Changes"; the script reruns.
ClickApplyChanges ==
  /\ variant = "app"
  /\ Truthy(st_current_loa)
  /\ edit_mode
  /\ Len(log) < MaxOps
  /\ \E edit_request \in EditRequests, out \in Outcomes, d2 \in Later(today) :
       edit_loa_app(edit_request, out, d2)
  /\ st_current_loa' = Some(ret'.value)
  /\ preview' = Shown(st_current_loa')
  /\ UNCHANGED <<document, variant, edit_mode, main_params, pc>>

\* The operator presses "Cancel"; the script reruns.
ClickCancel ==
  /\ variant = "app"
  /\ Truthy(st_current_loa)
  /\ edit_mode
  /\ edit_mode' = FALSE
  /\ preview' = Shown(st_current_loa)
  /\ UNCHANGED <<document, variant, today, session, st_current_loa, main_params, pc>>

\* ------------------------------------------------------ main() of main.py
\* "params = {...}": the example parameters, dated today.
MainBuildParams ==
  /\ variant = "main"
  /\ pc = "start"
  /\ main_params' = MainParams(today)
  /\ pc' = "generate"
  /\ UNCHANGED <<document, variant, today, session, ui>>

\* "loa = generator.generate_loa(params)"
MainGenerate ==
  /\ variant = "main"
  /\ pc = "generate"
  /\ \E out \in Outcomes, d2 \in Later(today) : generate_loa_main(main_params, out, d2)
  /\ pc' = IF ret'.kind = "raised" THEN "crashed" ELSE "edit"
  /\ UNCHANGED <<document, variant, ui, main_params>>

\* "edited_loa = generator.edit_loa(edit_request)"
MainEdit ==
  /\ variant = "main"
  /\ pc = "edit"
  /\ \E out \in Outcomes, d2 \in Later(today) : edit_loa_main(MainEditRequest, out, d2)
  /\ pc' = IF ret'.kind = "raised" THEN "crashed" ELSE "save"
  /\ UNCHANGED <<document, variant, ui, main_params>>

\* Midnight passes between two operations.
DayPasses ==
  /\ today < MaxDay
  /\ today' = today + 1
  /\ UNCHANGED <<document, variant, session, ui, main_params, pc>>

Next ==
  \/ ClickGenerate
  \/ ClickEditLOA
  \/ ClickApplyChanges
  \/ ClickCancel
  \/ MainBuildParams
  \/ MainGenerate
  \/ MainEdit
  \/ DayPasses

Spec == Init /\ [][Next]_vars

\* ------------------------------------------------ create_word_document
\* In this part a text is a sequence of characters.
\* The limit of "len(line) < 50".
HeaderLimit == 50

\* the characters str.strip() removes
Whitespace == {" ", "\t", "\n", "\r"}

RECURSIVE LStrip(_)
LStrip(t) == IF t # <<>> /\ t[1] \in Whitespace THEN LStrip(Tail(t)) ELSE t
RECURSIVE RStrip(_)
RStrip(t) ==
  IF t # <<>> /\ t[Len(t)] \in Whitespace THEN RStrip(SubSeq(t, 1, Len(t) - 1)) ELSE t
\* str.strip()
Strip(t) == LStrip(RStrip(t))

UpperCase == <<"A", "B", "C", "D", "E", "F", "G", "H", "I", "J", "K", "L", "M",
               "N", "O", "P", "Q", "R", "S", "T", "U", "V", "W", "X", "Y", "Z">>
LowerCase == <<"a", "b", "c", "d", "e", "f", "g", "h", "i", "j", "k", "l", "m",
               "n", "o", "p", "q", "r", "s", "t", "u", "v", "w", "x", "y", "z">>
LowerChar(c) ==
  IF \E i \in 1..Len(UpperCase) : UpperCase[i] = c
  THEN LowerCase[CHOOSE i \in 1..Len(UpperCase) : UpperCase[i] = c]
  ELSE c
\* str.lower()
Lower(t) == [i \in 1..Len(t) |-> LowerChar(t[i])]

\* str.startswith(prefix), str.endswith(suffix)
StartsWith(t, prefix) == Len(t) >= Len(prefix) /\ SubSeq(t, 1, Len(prefix)) = prefix
EndsWith(t, suffix) ==
  Len(t) >= Len(suffix) /\ SubSeq(t, Len(t) - Len(suffix) + 1, Len(t)) = suffix

\* str.split(sep) for a separator of one character
RECURSIVE Split(_, _)
\* A split at the first separator only.
Split_Once(t, sep) ==
  IF \E i \in 1..Len(t) : t[i] = sep
  THEN LET i == CHOOSE k \in 1..Len(t) : t[k] = sep /\ \A j \in 1..(k - 1) : t[j] # sep
       IN <<SubSeq(t, 1, i - 1), SubSeq(t, i + 1, Len(t))>>
  ELSE <<t>>

Split(t, sep) ==
  IF \E i \in 1..Len(t) : t[i] = sep
  THEN LET i == CHOOSE k \in 1..Len(t) : t[k] = sep /\ \A j \in 1..(k - 1) : t[j] # sep
       IN <<SubSeq(t, 1, i - 1)>> \o Split(SubSeq(t, i + 1, Len(t)), sep)
  ELSE <<t>>

\* the prefixes the branches of create_word_document test
DatePrefix == <<"D", "a", "t", "e", ":">>
RefPrefixes == {<<"r", "e", "f", ":">>, <<"r", "e", "f", "e", "r", "e", "n", "c", "e", ":">>}
Salutations == {<<"d", "e", "a", "r", " ">>, <<"t", "o", " ", "w", "h", "o", "m">>, <<"s", "i", "r">>, <<"m", "a", "d", "a", "m">>}
SubjectPrefix == <<"s", "u", "b", "j", "e", "c", "t", ":">>
\* The closings without the one for "Yours ".
Closings_NoYours == {<<"s", "i", "n", "c", "e", "r", "e", "l", "y">>, <<"f", "a", "i", "t", "h", "f", "u", "l", "l", "y">>, <<"r", "e", "g", "a", "r", "d", "s">>}
Closings == {<<"y", "o", "u", "r", "s", " ">>, <<"s", "i", "n", "c", "e", "r", "e", "l", "y">>, <<"f", "a", "i", "t", "h", "f", "u", "l", "l", "y">>, <<"r", "e", "g", "a", "r", "d", "s">>}

\* doc.add_paragraph() and p.add_run(line): a paragraph with its alignment and
\* its runs; role names the branch of create_word_document that made it.
Paragraph(role, alignment, runs) == [role |-> role, alignment |-> alignment, runs |-> runs]
Run(text, bold) == [text |-> text, bold |-> bold]

\* A limit that lets a line of exactly the limit through.
BelowHeaderLimit_Inclusive(n) == n <= HeaderLimit

\* The line length a section header must stay under.
BelowHeaderLimit(n) == n < HeaderLimit

\* A loop body that tests for a section header before it tests for a subject.
AddLine_HeaderFirst(line) ==
  IF line = <<>>
  THEN Paragraph("blank", "default", <<>>)
  ELSE IF StartsWith(line, DatePrefix) \/ \E p \in RefPrefixes : StartsWith(Lower(line), p)
  THEN Paragraph("reference-or-date", "right", <<Run(line, TRUE)>>)
  ELSE IF \E salutation \in Salutations : StartsWith(Lower(line), salutation)
  THEN Paragraph("salutation", "default", <<Run(line, FALSE)>>)
  ELSE IF EndsWith(line, <<":">>) /\ BelowHeaderLimit(Len(line))
  THEN Paragraph("section-header", "default", <<Run(line, TRUE)>>)
  ELSE IF StartsWith(Lower(line), SubjectPrefix)
  THEN Paragraph("subject", "default", <<Run(line, TRUE)>>)
  ELSE IF \E p \in Closings : StartsWith(Lower(line), p)
  THEN Paragraph("closing", "default", <<Run(line, FALSE)>>)
  ELSE Paragraph("body", "default", <<Run(line, FALSE)>>)

\* A loop body that leaves the subject line plain and right-aligns nothing.
AddLine_Plain(line) ==
  IF line = <<>>
  THEN Paragraph("blank", "default", <<>>)
  ELSE IF StartsWith(line, DatePrefix) \/ \E p \in RefPrefixes : StartsWith(Lower(line), p)
  THEN Paragraph("reference-or-date", "default", <<Run(line, TRUE)>>)
  ELSE IF \E salutation \in Salutations : StartsWith(Lower(line), salutation)
  THEN Paragraph("salutation", "default", <<Run(line, FALSE)>>)
  ELSE IF StartsWith(Lower(line), SubjectPrefix)
  THEN Paragraph("subject", "default", <<Run(line, FALSE)>>)
  ELSE IF \E p \in Closings : StartsWith(Lower(line), p)
  THEN Paragraph("closing", "default", <<Run(line, FALSE)>>)
  ELSE IF EndsWith(line, <<":">>) /\ BelowHeaderLimit(Len(line))
  THEN Paragraph("section-header", "default", <<Run(line, TRUE)>>)
  ELSE Paragraph("body", "default", <<Run(line, FALSE)>>)

\* create_word_document: the body of "for line in lines", on the stripped line
AddLine(line) ==
  IF line = <<>>
  THEN Paragraph("blank", "default", <<>>)
  ELSE IF StartsWith(line, DatePrefix) \/ \E p \in RefPrefixes : StartsWith(Lower(line), p)
  THEN Paragraph("reference-or-date", "right", <<Run(line, TRUE)>>)
  ELSE IF \E salutation \in Salutations : StartsWith(Lower(line), salutation)
  THEN Paragraph("salutation", "default", <<Run(line, FALSE)>>)
  ELSE IF StartsWith(Lower(line), SubjectPrefix)
  THEN Paragraph("subject", "default", <<Run(line, TRUE)>>)
  ELSE IF \E p \in Closings : StartsWith(Lower(line), p)
  THEN Paragraph("closing", "default", <<Run(line, FALSE)>>)
  ELSE IF EndsWith(line, <<":">>) /\ BelowHeaderLimit(Len(line))
  THEN Paragraph("section-header", "default", <<Run(line, TRUE)>>)
  ELSE Paragraph("body", "default", <<Run(line, FALSE)>>)

\* A loop body that classifies the line as it stands.
StripLine_Keeps(line) == line

\* create_word_document: "line = line.strip()"
StripLine(line) == Strip(line)

\* A split of the text as it stands.
Lines_NoStrip(content) == Split(content, "\n")

\* create_word_document: "lines = loa_content.strip().split('\n')"
Lines(content) == Split(Strip(content), "\n")

\* create_word_document(loa_content): the paragraphs of the document
create_word_document(content) ==
  LET lines == Lines(content)
  IN [i \in 1..Len(lines) |-> AddLine(StripLine(lines[i]))]

\* ------------------------------------------------------ letters to render
\* Lines of context around the line under test, on each side.
MaxContext == 1
\* Characters by which a padded line may exceed the header limit.
MaxOver == 1

Fill(n) == [i \in 1..n |-> "x"]
LinePrefixes ==
  { <<>>,
    <<"D", "a", "t", "e", ":">>,
    <<"d", "a", "t", "e", ":">>,
    <<"R", "e", "f", ":">>,
    <<"R", "E", "F", ":">>,
    <<"R", "e", "f", "e", "r", "e", "n", "c", "e", ":">>,
    <<"D", "e", "a", "r", " ">>,
    <<"D", "e", "a", "r">>,
    <<"T", "o", " ", "W", "h", "o", "m">>,
    <<"S", "i", "r">>,
    <<"S", "I", "R">>,
    <<"M", "a", "d", "a", "m">>,
    <<"S", "u", "b", "j", "e", "c", "t", ":">>,
    <<"S", "U", "B", "J", "E", "C", "T", ":">>,
    <<"S", "u", "b", "j", "e", "c", "t">>,
    <<"Y", "o", "u", "r", "s", " ">>,
    <<"Y", "o", "u", "r", "s">>,
    <<"S", "i", "n", "c", "e", "r", "e", "l", "y">>,
    <<"f", "a", "i", "t", "h", "f", "u", "l", "l", "y">>,
    <<"R", "e", "g", "a", "r", "d", "s">>,
    <<"T", "e", "r", "m", "s">>,
    <<"R", "e", ":">> }
LineSuffixes == { <<>>, <<":">> }
\* whitespace before and after the line
LineWraps == { <<<<>>, <<>>>>, <<<<" ">>, <<>>>>, <<<<"\t">>, <<" ">>>> }
\* paddings: none, one character, and up to and over the header limit
Paddings(base) ==
  {0, 1} \cup { n \in 0..(HeaderLimit + MaxOver) :
                  base + n \in (HeaderLimit - 1)..(HeaderLimit + MaxOver) }
TestLines ==
  { w[1] \o p \o Fill(n) \o x \o w[2] :
      <<p, x, w, n>> \in
        { q \in LinePrefixes \X LineSuffixes \X LineWraps \X (0..(HeaderLimit + MaxOver)) :
            q[4] \in Paddings(Len(q[1]) + Len(q[2]) + Len(q[3][1]) + Len(q[3][2])) } }
ContextLines == { <<>>, <<"R", "e", "f", ":", " ", "7">> }
Contexts == UNION { [1..n -> ContextLines] : n \in 0..MaxContext }
\* "\n".join(lines)
JoinLines(lines) == Join(lines, <<"\n">>)
ContextLetters ==
  { JoinLines(before \o <<line>> \o after) :
      before \in Contexts, line \in TestLines, after \in Contexts }
\* the example letter of nine lines
ExampleLetter ==
  <<"D", "a", "t", "e", ":", " ", "0", "1", ".", "0", "1", ".", "2", "0",
    "2", "5", "\n", "\n", "D", "e", "a", "r", " ", "S", "i", "r", ",", "\n",
    "S", "u", "b", "j", "e", "c", "t", ":", " ", "A", "u", "t", "h", "o",
    "r", "i", "z", "a", "t", "i", "o", "n", " ", "f", "o", "r", " ", "H",
    "o", "a", "r", "d", "i", "n", "g", "\n", "T", "e", "r", "m", "s", ":",
    "\n", "T", "h", "i", "s", " ", "l", "e", "t", "t", "e", "r", " ", "a",
    "u", "t", "h", "o", "r", "i", "z", "e", "s", " ", "i", "n", "s", "t",
    "a", "l", "l", "a", "t", "i", "o", "n", ".", "\n", "\n", "Y", "o", "u",
    "r", "s", " ", "s", "i", "n", "c", "e", "r", "e", "l", "y", ",", "\n",
    "J", ".", " ", "D", "o", "e">>
SubjectRenewal == <<"S", "u", "b", "j", "e", "c", "t", ":", " ", "R", "e", "n", "e", "w", "a", "l">>
\* Lines of a letter of prose.
MaxProse == 4
ProseLines == { <<>>, <<" ">>, <<"J", ".", " ", "D", "o", "e">>, <<" ", "W", "e", " ", "a", "g", "r", "e", "e", ".">> }
ProseLetters == { JoinLines(lines) : lines \in UNION { [1..n -> ProseLines] : n \in 1..MaxProse } }
Letters == ContextLetters \cup ProseLetters \cup {ExampleLetter, SubjectRenewal}

RenderInit ==
  /\ variant = "app"
  /\ today = 1
  /\ conversation_history = <<>>
  /\ current_loa = None
  /\ sent = <<>>
  /\ apiCalls = 0
  /\ ret = NoReturn
  /\ log = <<>>
  /\ produced = <<>>
  /\ st_current_loa = None
  /\ edit_mode = FALSE
  /\ preview = None
  /\ main_params = <<>>
  /\ pc = "render"
  /\ loa_content \in Letters
  /\ doc = <<>>

\* doc = create_word_document(loa_content)
CreateWordDocument ==
  /\ pc = "render"
  /\ doc' = create_word_document(loa_content)
  /\ pc' = "rendered"
  /\ UNCHANGED <<variant, today, session, ui, main_params, loa_content>>

RenderNext == CreateWordDocument

RenderSpec == RenderInit /\ [][RenderNext]_vars

\* ------------------------------------------------- parameter sets to build
\* a dict with the keys of f that hold a value
WithoutAbsent(f) == [k \in { x \in DOMAIN f : f[x].kind # "none" } |-> f[k]]
\* a field that is absent, empty or holds the text t
Optional(t) == {NoValue, Str(<<>>), Str(<<t>>)}
AddressParams ==
  { WithoutAbsent([company_name |-> c, address_line1 |-> a1, address_line2 |-> a2,
                   address_line3 |-> a3, city |-> ci, pincode |-> pi]) :
      c \in Optional("Acme Ltd"), a1 \in Optional("1 Main St"),
      a2 \in {Str(<<>>), Str(<<"Floor 2">>)}, a3 \in {NoValue, Str(<<"Near Park">>)},
      ci \in Optional("Pune"), pi \in Optional("411004") }
SectionParams ==
  { WithoutAbsent([contact_person |-> cp, contact_email |-> ce, contact_phone |-> ph,
                   size |-> sz, payment_type |-> pt, payment_amount |-> pa,
                   annual_increase |-> ai, additional_terms |-> at,
                   special_requirements |-> sr]) :
      cp \in Optional("Mr. Khan"), ce \in {NoValue, Str(<<"a@b.c">>)},
      ph \in {Str(<<>>), Str(<<"902">>)}, sz \in Optional("400 Sq. Ft."),
      pt \in Optional("Quarterly"), pa \in Optional("310"), ai \in Optional("5"),
      at \in {NoValue, Str(<<"No subletting">>)}, sr \in {Str(<<>>), Str(<<"Urgent">>)} }
DateParams ==
  { WithoutAbsent([date |-> dt, reference_number |-> rn]) :
      dt \in {NoValue, Str(<<>>), Str(<<"next Monday">>)} \cup { Date(d) : d \in 1..MaxDay },
      rn \in Optional("REF/1") }
\* the parameter sets: as main() and the form build them, every field holds
\* a str but the date, which holds a str or a calendar date
ParamSets == AddressParams \cup SectionParams \cup DateParams

PromptInit ==
  /\ variant = "main"
  /\ today \in 1..MaxDay
  /\ conversation_history = <<>>
  /\ current_loa = None
  /\ sent = <<>>
  /\ apiCalls = 0
  /\ ret = NoReturn
  /\ log = <<>>
  /\ produced = <<>>
  /\ st_current_loa = None
  /\ edit_mode = FALSE
  /\ preview = None
  /\ main_params \in ParamSets
  /\ pc = "build"
  /\ loa_content = <<>>
  /\ doc = <<>>

\* prompt = self._construct_loa_prompt(params)
ConstructLoaPrompt ==
  /\ pc = "build"
  /\ ret' = construct_loa_prompt_outcome(main_params, today)
  /\ pc' = "built"
  /\ UNCHANGED <<variant, today, conversation_history, current_loa, sent, apiCalls,
                 log, produced, ui, main_params, document>>

PromptNext == ConstructLoaPrompt

PromptSpec == PromptInit /\ [][PromptNext]_vars

\* ------------------------------------------------------------- properties
Last(q) == q[Len(q)]
IsPrefix(a, b) == Len(a) <= Len(b) /\ SubSeq(b, 1, Len(a)) = a
Count(h, role) == Cardinality({ i \in 1..Len(h) : h[i].role = role })
\* the Turns of the transcript: the request and response messages
Requests(h) == SelectSeq(h, LAMBDA m : m.role = "user")
ResponseTurns(h) == SelectSeq(h, LAMBDA m : m.role = "assistant")
\* a is b with some elements left out
RECURSIVE IsSubsequence(_, _)
IsSubsequence(a, b) ==
  IF a = <<>> THEN TRUE
  ELSE IF b = <<>> THEN FALSE
  ELSE IF a[1] = b[1] THEN IsSubsequence(Tail(a), Tail(b))
  ELSE IsSubsequence(a, Tail(b))

\* the step is a call of op
Called(op) == Len(log') = Len(log) + 1 /\ Last(log').op = op
\* the step is a call that ended with the given outcome
Ended(outcome) == Len(log') = Len(log) + 1 /\ Last(log').outcome = outcome
GenerateSucceeded == \E i \in 1..Len(log) : log[i] = Entry("generate_loa", "ok")
\* the successful operations, in call order: the k-th produced the Turns
\* produced[2k-1] and produced[2k]
OkOps == SelectSeq(log, LAMBDA x : x.outcome = "ok")
\* the position in OkOps of the most recent successful generate_loa
LastGenerate ==
  CHOOSE k \in 1..Len(OkOps) :
    /\ OkOps[k].op = "generate_loa"
    /\ \A j \in (k + 1)..Len(OkOps) : OkOps[j].op # "generate_loa"
\* the Turns produced since the most recent successful generate_loa, its own included
SinceLastGenerate == SubSeq(produced, 2 * LastGenerate - 1, Len(produced))

\* C1: between operations the transcript alternates request, response,
\* request, ...: it starts with a request Turn, no two Turns of the same role
\* are adjacent, and response Turns never outnumber request Turns.
C1_Alternating ==
  /\ conversation_history # <<>> => conversation_history[1].role = "user"
  /\ \A i \in 1..(Len(conversation_history) - 1) :
       conversation_history[i].role # conversation_history[i + 1].role
  /\ Count(conversation_history, "assistant") <= Count(conversation_history, "user")

\* C2: current_loa is None while no generate_loa has succeeded; afterwards it
\* is the text of the last response Turn of the transcript, which is the text
\* the most recent successful service call returned; and an operation that
\* fails or is rejected leaves current_loa as it was.
C2_State ==
  IF GenerateSucceeded
  THEN /\ ResponseTurns(conversation_history) # <<>>
       /\ current_loa = Some(Last(ResponseTurns(conversation_history)).content)
       /\ current_loa = Some(Last(produced).content)
  ELSE current_loa = None
C2_CurrentLetter ==
  /\ []C2_State
  /\ [][(Ended("fail") \/ Ended("rejected")) => current_loa' = current_loa]_vars
\* a failed edit_loa after a successful generate_loa: the letter is still there
C2_Witness ==
  /\ Len(log) = 2
  /\ log[1] = Entry("generate_loa", "ok")
  /\ log[2] = Entry("edit_loa", "fail")
  /\ current_loa = Some(<<"Letter A">>)

\* C3: edit_loa on a session whose current_loa is None makes no service
\* call, leaves the transcript and current_loa unchanged and returns the
\* no-LOA message, each time it is called.
C3_EditOnEmpty ==
  [][(Called("edit_loa") /\ current_loa = None) =>
       /\ apiCalls' = apiCalls
       /\ sent' = sent
       /\ conversation_history' = conversation_history
       /\ current_loa' = current_loa
       /\ ret' = Returned(NoLoaMessage)]_vars
\* edit_loa was called twice in a row on a session without a letter
C3_Witness ==
  /\ Len(log) = 3
  /\ log[2] = Entry("edit_loa", "rejected")
  /\ log[3] = Entry("edit_loa", "rejected")
  /\ current_loa = None
  /\ apiCalls = 1
  /\ ret = Returned(NoLoaMessage)

\* C4: on a fresh session, after a successful generate_loa followed by a
\* successful edit_loa the transcript is request, response, request, response
\* and current_loa is the text of the second response.
C4_GenerateThenEdit ==
  log = <<Entry("generate_loa", "ok"), Entry("edit_loa", "ok")>> =>
    /\ Len(conversation_history) = 4
    /\ [i \in 1..4 |-> conversation_history[i].role]
         = <<"user", "assistant", "user", "assistant">>
    /\ conversation_history = produced
    /\ current_loa = Some(conversation_history[4].content)
    /\ ret = Returned(conversation_history[4].content)
C4_Witness ==
  /\ log = <<Entry("generate_loa", "ok"), Entry("edit_loa", "ok")>>
  /\ current_loa = Some(<<"Letter B">>)
  /\ conversation_history[2].content = <<"Letter A">>

\* C5 as stated: every call leaves the transcript it found as a prefix of the
\* transcript it leaves.
C5_AppendOnly ==
  [][IsPrefix(conversation_history, conversation_history')]_vars
\* C5 as amended: edit_loa, and a generate_loa that fails, leave the transcript
\* they found as a prefix of the transcript they leave; a successful
\* generate_loa replaces the whole transcript by its own (request, response)
\* pair.
C5_AppendOrReplace ==
  [][IF Called("generate_loa") /\ Ended("ok")
     THEN /\ Len(conversation_history') = 2
          /\ conversation_history'[1].role = "user"
          /\ conversation_history'[2] = Message("assistant", ret'.value)
          /\ conversation_history' = SubSeq(produced', Len(produced) + 1, Len(produced'))
     ELSE IsPrefix(conversation_history, conversation_history')]_vars
\* a second successful generate_loa has replaced the transcript of the first
C5_Witness ==
  /\ Len(log) >= 2
  /\ log[1] = Entry("generate_loa", "ok")
  /\ log[2] = Entry("generate_loa", "ok")
  /\ Len(produced) = 4
  /\ Len(conversation_history) = 2
  /\ produced[2] # conversation_history[2]

\* C6 as stated: an edit_loa that calls the service sends the system
\* directive, then every Turn of all earlier successful operations in call
\* order, beginning with the request of the first generate_loa (and then its
\* own request).
C6_FullHistory ==
  [][(Called("edit_loa") /\ apiCalls' # apiCalls) =>
       SubSeq(sent', 1, Len(sent') - 1)
         = <<Message("system", create_system_prompt)>> \o produced]_vars
\* C6 as amended: such an edit_loa sends the system directive, then the
\* stored transcript as the call found it, then its own wrapped request; the
\* stored transcript begins with the Turn pair of the most recent successful
\* generate_loa and holds, in call order, the Turns of the successful
\* operations since then, and besides them only request Turns.
C6_StoredHistory ==
  [][(Called("edit_loa") /\ apiCalls' # apiCalls) =>
       /\ sent'[1] = Message("system", create_system_prompt)
       /\ SubSeq(sent', 2, Len(sent') - 1) = conversation_history
       /\ \E edit_request \in EditRequests \cup {MainEditRequest} :
            Last(sent') = EditMessage(edit_request)
       /\ SubSeq(conversation_history, 1, 2) = SubSeq(SinceLastGenerate, 1, 2)
       /\ IsSubsequence(SinceLastGenerate, conversation_history)
       /\ ResponseTurns(conversation_history) = ResponseTurns(SinceLastGenerate)]_vars
\* an edit_loa has called the service after a second generate_loa
C6_Witness ==
  /\ Len(log) = 3
  /\ log[1] = Entry("generate_loa", "ok")
  /\ log[2] = Entry("generate_loa", "ok")
  /\ log[3].op = "edit_loa"
  /\ Len(produced) >= 4
  /\ produced[1] # produced[3]
  /\ Len(sent) = 4
  /\ sent[2] = produced[3]

C8_AppShowsOnlyLetters ==
  variant = "app" =>
    /\ st_current_loa = None \/ st_current_loa = current_loa
    /\ preview = None \/ preview = current_loa

\* C9: once current_loa is set it is never None again.
C9_StaysActive ==
  [][current_loa # None => current_loa' # None]_vars
\* the session has a letter, and operations have failed and succeeded since
C9_Witness ==
  /\ log = <<Entry("generate_loa", "ok"), Entry("edit_loa", "fail"),
             Entry("generate_loa", "fail")>>
  /\ current_loa # None

\* The rules of the renderer as the specification lists them, each read on
\* its own.
Begins(line, p) == Len(line) >= Len(p) /\ \A i \in 1..Len(p) : line[i] = p[i]
BeginsAnyCase(line, p) ==
  Len(line) >= Len(p) /\ \A i \in 1..Len(p) : LowerChar(line[i]) = LowerChar(p[i])
RuleMatches(k, line) ==
  CASE k = 1 -> \A i \in 1..Len(line) : line[i] \in Whitespace
    [] k = 2 -> \/ Begins(line, <<"D", "a", "t", "e", ":">>)
                \/ BeginsAnyCase(line, <<"R", "e", "f", ":">>)
                \/ BeginsAnyCase(line, <<"R", "e", "f", "e", "r", "e", "n", "c", "e", ":">>)
    [] k = 3 -> \/ BeginsAnyCase(line, <<"D", "e", "a", "r", " ">>)
                \/ BeginsAnyCase(line, <<"T", "o", " ", "W", "h", "o", "m">>)
                \/ BeginsAnyCase(line, <<"S", "i", "r">>)
                \/ BeginsAnyCase(line, <<"M", "a", "d", "a", "m">>)
    [] k = 4 -> BeginsAnyCase(line, <<"S", "u", "b", "j", "e", "c", "t", ":">>)
    [] k = 5 -> \/ BeginsAnyCase(line, <<"Y", "o", "u", "r", "s", " ">>)
                \/ BeginsAnyCase(line, <<"S", "i", "n", "c", "e", "r", "e", "l", "y">>)
                \/ BeginsAnyCase(line, <<"F", "a", "i", "t", "h", "f", "u", "l", "l", "y">>)
                \/ BeginsAnyCase(line, <<"R", "e", "g", "a", "r", "d", "s">>)
    [] k = 6 -> line # <<>> /\ line[Len(line)] = ":" /\ Len(line) < 50
    [] OTHER -> TRUE
RuleRoles == <<"blank", "reference-or-date", "salutation", "subject", "closing",
               "section-header", "body">>
\* the role of the first rule that matches the line
RoleByRules(line) ==
  RuleRoles[CHOOSE k \in 1..Len(RuleRoles) :
              RuleMatches(k, line) /\ \A j \in 1..(k - 1) : ~RuleMatches(j, line)]

\* C10 as stated: every line the renderer processes gets exactly one role,
\* the role of the first rule of the list that matches the line, whatever
\* the other lines are.
C10_RoleOfLine ==
  pc = "rendered" =>
    /\ Len(doc) = Len(Lines(loa_content))
    /\ \A i \in 1..Len(doc) :
         /\ doc[i].role \in { RuleRoles[k] : k \in 1..Len(RuleRoles) }
         /\ doc[i].role = RoleByRules(Lines(loa_content)[i])
\* C10 as amended: the rules are read on the line with its leading and
\* trailing whitespace removed.
C10_RoleOfStrippedLine ==
  pc = "rendered" =>
    /\ Len(doc) = Len(Lines(loa_content))
    /\ \A i \in 1..Len(doc) :
         /\ doc[i].role \in { RuleRoles[k] : k \in 1..Len(RuleRoles) }
         /\ doc[i].role = RoleByRules(Strip(Lines(loa_content)[i]))
\* a letter of three lines whose second line is indented and is a salutation
C10_Witness ==
  /\ pc = "rendered"
  /\ Len(doc) = 3
  /\ doc[1].role = "reference-or-date"
  /\ doc[2].role = "salutation"
  /\ Lines(loa_content)[2][1] = " "
  /\ doc[3].role = "reference-or-date"

\* the roles of the paragraphs of the document, in order
DocRoles == [i \in 1..Len(doc) |-> doc[i].role]

\* C11: the example letter of nine lines renders to nine blocks with the
\* roles reference-or-date, blank, salutation, subject, section-header, body,
\* blank, closing, body.
C11_ExampleLetter ==
  (pc = "rendered" /\ loa_content = ExampleLetter) =>
    DocRoles = <<"reference-or-date", "blank", "salutation", "subject",
                 "section-header", "body", "blank", "closing", "body">>
C11_Witness ==
  /\ pc = "rendered"
  /\ loa_content = ExampleLetter
  /\ Len(doc) = 9
  /\ doc[8].runs[1].text = <<"Y", "o", "u", "r", "s", " ", "s", "i", "n", "c", "e", "r", "e", "l", "y", ",">>

\* C12: a line that begins, in any case, with "Subject:" is a subject and
\* never a section header, also when it ends with ":" and is shorter than 50
\* characters; "Subject: Renewal" is a subject.
C12_SubjectBeforeHeader ==
  pc = "rendered" =>
    /\ \A i \in 1..Len(doc) :
         BeginsAnyCase(Lines(loa_content)[i], <<"S", "u", "b", "j", "e", "c", "t", ":">>)
           => doc[i].role = "subject"
    /\ loa_content = SubjectRenewal => DocRoles = <<"subject">>
\* the line "Subject:" alone, which also ends with ":" and has 8 characters
C12_Witness ==
  /\ pc = "rendered"
  /\ loa_content = <<"S", "u", "b", "j", "e", "c", "t", ":">>
  /\ DocRoles = <<"subject">>

\* none of the rules 1 to 5 matches the line
NoEarlierRule(line) == \A k \in 1..5 : ~RuleMatches(k, line)
\* the line ends with ":" and has fewer than 50 characters
ShortColonLine(line) == line # <<>> /\ line[Len(line)] = ":" /\ Len(line) < 50
EndsWithColon(line) == line # <<>> /\ line[Len(line)] = ":"

\* C13 as stated: a line that none of the rules 1 to 5 matches is a section
\* header exactly when it ends with ":" and has fewer than 50 characters;
\* with 50 characters or more and a final ":" it is body.
C13_HeaderIffShort ==
  pc = "rendered" =>
    \A i \in 1..Len(doc) :
      LET line == Lines(loa_content)[i]
      IN NoEarlierRule(line) =>
           /\ doc[i].role = "section-header" <=> ShortColonLine(line)
           /\ (EndsWithColon(line) /\ Len(line) >= 50) => doc[i].role = "body"
\* C13 as amended: the same, read on the line with its leading and trailing
\* whitespace removed, the length being that of the stripped line; "Terms:"
\* is a section header.
C13_HeaderIffShortStripped ==
  pc = "rendered" =>
    /\ \A i \in 1..Len(doc) :
         LET line == Strip(Lines(loa_content)[i])
         IN NoEarlierRule(line) =>
              /\ doc[i].role = "section-header" <=> ShortColonLine(line)
              /\ (EndsWithColon(line) /\ Len(line) >= 50) => doc[i].role = "body"
    /\ loa_content = <<"T", "e", "r", "m", "s", ":">> => DocRoles = <<"section-header">>
\* a line of 49 characters that ends with ":" is a section header
C13_Witness ==
  /\ pc = "rendered"
  /\ Len(loa_content) = 49
  /\ NoEarlierRule(loa_content)
  /\ DocRoles = <<"section-header">>
\* a line of 50 characters that ends with ":" is body
C13_AtLimit ==
  /\ pc = "rendered"
  /\ Len(loa_content) = 50
  /\ EndsWithColon(loa_content)
  /\ DocRoles = <<"body">>

\* the lines of the letter text as given, split on line breaks
InputLines == Split(loa_content, "\n")
StrippedInputLines == [i \in 1..Len(InputLines) |-> Strip(InputLines[i])]
\* plain prose: none of the reference, salutation, subject, closing or
\* section-header patterns matches
PlainProse(line) == \A k \in 2..6 : ~RuleMatches(k, line)
\* the texts of the body blocks, in block order
BodyTexts ==
  LET bodies == SelectSeq(doc, LAMBDA p : p.role = "body")
  IN [i \in 1..Len(bodies) |-> bodies[i].runs[1].text]

\* C14 as stated: when every line of the text is plain prose, there are as
\* many body blocks as non-empty input lines, and they are those lines (up
\* to surrounding whitespace) in their original order.
C14_BodyPerNonEmptyLine ==
  (pc = "rendered" /\ \A i \in 1..Len(InputLines) : PlainProse(InputLines[i])) =>
    LET nonEmpty == SelectSeq(InputLines, LAMBDA l : l # <<>>)
    IN /\ Len(BodyTexts) = Len(nonEmpty)
       /\ \A i \in 1..Len(BodyTexts) : BodyTexts[i] = Strip(nonEmpty[i])
\* C14 as amended: when every line, with its leading and trailing whitespace
\* removed, is empty or plain prose, the body blocks are exactly the lines
\* that are not empty after stripping, stripped, in their original order,
\* and every other block is blank.
C14_BodyPerNonBlankLine ==
  (pc = "rendered" /\ \A i \in 1..Len(InputLines) : PlainProse(StrippedInputLines[i])) =>
    /\ BodyTexts = SelectSeq(StrippedInputLines, LAMBDA l : l # <<>>)
    /\ \A i \in 1..Len(doc) : doc[i].role \in {"body", "blank"}
\* three lines of prose, two of them bodies around a blank line
C14_Witness ==
  /\ pc = "rendered"
  /\ \A i \in 1..Len(InputLines) : PlainProse(StrippedInputLines[i])
  /\ DocRoles = <<"body", "blank", "body">>
  /\ BodyTexts[1] # BodyTexts[2]

\* the paragraph shows the line: no text for a line that is empty once
\* stripped, the stripped line otherwise
ShowsLine(p, line) ==
  IF line = <<>> THEN p.runs = <<>> ELSE Len(p.runs) = 1 /\ p.runs[1].text = line
\* the lines that are not empty once stripped
NonBlankLines == { i \in 1..Len(InputLines) : StrippedInputLines[i] # <<>> }

\* C15 as stated: one paragraph for each line of the text as split on line
\* breaks, in line order, blank lines at the start and at the end
\* included; an empty text gives at most one blank paragraph.
C15_ParagraphPerLine ==
  pc = "rendered" =>
    /\ Len(doc) = Len(InputLines)
    /\ \A i \in 1..Len(doc) : ShowsLine(doc[i], StrippedInputLines[i])
    /\ loa_content = <<>> => (Len(doc) <= 1 /\ \A i \in 1..Len(doc) : doc[i].role = "blank")
\* C15 as amended: whitespace-only lines before the first and after the last
\* line with text give no paragraph; every line from the first to the last
\* line with text gives one paragraph, in line order, empty for a blank line;
\* a text with no line of text gives exactly one empty paragraph.
C15_ParagraphPerInnerLine ==
  pc = "rendered" =>
    LET lines == StrippedInputLines
        nonBlank == { i \in 1..Len(lines) : lines[i] # <<>> }
        first == CHOOSE i \in nonBlank : \A j \in nonBlank : i <= j
        last == CHOOSE i \in nonBlank : \A j \in nonBlank : j <= i
    IN IF nonBlank = {}
       THEN DocRoles = <<"blank">> /\ doc[1].runs = <<>>
       ELSE /\ Len(doc) = last - first + 1
            /\ \A k \in 1..Len(doc) : ShowsLine(doc[k], lines[first + k - 1])
\* a blank first line gives no paragraph, a blank line between two lines of
\* text gives an empty one
C15_Witness ==
  /\ pc = "rendered"
  /\ Len(InputLines) = 4
  /\ NonBlankLines = {2, 4}
  /\ DocRoles = <<"body", "blank", "body">>
  /\ doc[2].runs = <<>>
\* the empty text gives one empty paragraph
C15_EmptyText == pc = "rendered" /\ loa_content = <<>> /\ DocRoles = <<"blank">>

EmphasizedRoles == {"reference-or-date", "subject", "section-header"}
\* C16: a paragraph is right-aligned exactly when its role is
\* reference-or-date; its text is bold exactly when its role is
\* reference-or-date, subject or section-header; salutation, closing and body
\* paragraphs are plain; a blank line gives a paragraph with no text.
C16_PresentationByRole ==
  pc = "rendered" =>
    \A i \in 1..Len(doc) :
      LET p == doc[i]
      IN /\ p.alignment = "right" <=> p.role = "reference-or-date"
         /\ p.role = "blank" => p.runs = <<>>
         /\ p.role # "blank" =>
              /\ Len(p.runs) = 1
              /\ p.runs[1].text = Strip(Lines(loa_content)[i])
              /\ p.runs[1].bold <=> p.role \in EmphasizedRoles
\* the example letter: a right-aligned bold date, an empty paragraph, a plain
\* salutation, a bold subject and header, a plain body and closing
C16_Witness ==
  /\ pc = "rendered"
  /\ loa_content = ExampleLetter
  /\ doc[1].alignment = "right" /\ doc[1].runs[1].bold
  /\ doc[2].runs = <<>>
  /\ doc[3].alignment = "default" /\ ~doc[3].runs[1].bold
  /\ doc[4].alignment = "default" /\ doc[4].runs[1].bold
  /\ doc[5].runs[1].bold
  /\ ~doc[6].runs[1].bold
  /\ ~doc[8].runs[1].bold

\* ---------------------------------------------- the instruction text built
Built == pc = "built" /\ ret.kind = "returned"
\* the position of the first segment seg of the text
IndexOf(text, seg) ==
  CHOOSE i \in 1..Len(text) : text[i] = seg /\ \A j \in 1..(i - 1) : text[j] # seg
Has(text, seg) == \E i \in 1..Len(text) : text[i] = seg
\* the text after its segment seg
After(text, seg) == SubSeq(text, IndexOf(text, seg) + 1, Len(text))
\* the field is populated: given, and not the empty string
Populated(key) == key \in DOMAIN main_params /\ main_params[key] # Str(<<>>)
FieldText(key) == IF Populated(key) THEN PStr(main_params[key]) ELSE <<>>
\* the segments that may follow the address block and its line break
AfterAddress == {"Kind attention: ", "Email: ", "Phone: ", " Scenario: "}
\* the populated address segments, each after a line break, less the first
\* line break
ExpectedAddress ==
  LET line(part) == IF part = <<>> THEN <<>> ELSE <<"\n">> \o part
      city_line == FieldText("city")
                     \o (IF Populated("pincode") THEN <<" - ">> \o FieldText("pincode") ELSE <<>>)
      all == line(FieldText("company_name")) \o line(FieldText("address_line1"))
               \o line(FieldText("address_line2")) \o line(FieldText("address_line3"))
               \o line(city_line)
  IN IF all = <<>> THEN <<>> ELSE Tail(all)

\* C17: the address block of the instruction text is the populated segments
\* among company name, address lines 1 to 3 and the city/pincode line, in
\* that order, with one line break between two segments and no blank line
\* between or around them; it is empty when no address field is populated.
C17_AddressBlock ==
  Built =>
    LET rest == After(ret.value, " Recipient:\n")
        n == Len(ExpectedAddress)
    IN /\ Len(rest) >= n + 2
       /\ SubSeq(rest, 1, n) = ExpectedAddress
       /\ rest[n + 1] = "\n"
       /\ rest[n + 2] \in AfterAddress
       /\ \A i \in 1..n : rest[i] = "\n" => (1 < i /\ i < n /\ rest[i + 1] # "\n")
       /\ (\A key \in JoinedFields \cup {"pincode"} : ~Populated(key)) => n = 0
\* a company name, an empty first line, a second line and a pincode without
\* a city give three lines
C17_Witness ==
  /\ Built
  /\ "address_line1" \in DOMAIN main_params /\ main_params["address_line1"] = Str(<<>>)
  /\ "city" \notin DOMAIN main_params
  /\ SubSeq(After(ret.value, " Recipient:\n"), 1, 7)
       = <<"Acme Ltd", "\n", "Floor 2", "\n", " - ", "411004", "\n">>
\* address fields that are all empty or absent give an empty block
C17_EmptyAddress ==
  /\ Built
  /\ "company_name" \in DOMAIN main_params
  /\ \A key \in JoinedFields \cup {"pincode"} : ~Populated(key)
  /\ SubSeq(After(ret.value, " Recipient:\n"), 1, 2) = <<"\n", " Scenario: ">>

\* the text between its segments a and b
Between(text, a, b) == SubSeq(text, IndexOf(text, a) + 1, IndexOf(text, b) - 1)
\* the reference number the instruction text carries
EmittedReference == SubSeq(ret.value, 2, IndexOf(ret.value, " Date: ") - 1)
DefaultReference == <<"LOA/">> \o strftime(today, "%Y/%m/%d")

\* C18: when no reference number is supplied (the field is absent or holds an
\* empty value) the instruction text carries the default LOA/<year>/<month>/<day>
\* of the current date; a supplied non-empty reference number is emitted
\* unchanged.
C18_DefaultReference ==
  Built =>
    IF Populated("reference_number")
    THEN EmittedReference = PStr(main_params["reference_number"])
    ELSE EmittedReference = DefaultReference
\* what holds of the code: the default stands in for an absent field only
C18_DefaultWhenAbsent ==
  Built =>
    IF "reference_number" \in DOMAIN main_params
    THEN EmittedReference = PStr(main_params["reference_number"])
    ELSE EmittedReference = DefaultReference
\* an empty reference number is emitted as it is
C18_EmptyReference ==
  /\ Built
  /\ "reference_number" \in DOMAIN main_params
  /\ main_params["reference_number"] = Str(<<>>)
  /\ EmittedReference = <<>>

\* the optional sections: the header each one opens with, its field, and the
\* fields that must be populated for it to appear
OptionalSections ==
  { [header |-> "Kind attention: ", field |-> "contact_person", needs |-> {"contact_person"}],
    [header |-> "Email: ", field |-> "contact_email", needs |-> {"contact_email"}],
    [header |-> "Phone: ", field |-> "contact_phone", needs |-> {"contact_phone"}],
    [header |-> "Size of Advertising Space: ", field |-> "size", needs |-> {"size"}],
    [header |-> "Payment Details: - Type: ", field |-> "payment_type",
     needs |-> {"payment_type", "payment_amount"}],
    [header |-> "- Annual Increase: ", field |-> "annual_increase", needs |-> {"annual_increase"}],
    [header |-> " Additional Terms: ", field |-> "additional_terms", needs |-> {"additional_terms"}],
    [header |-> " Special Requirements: ", field |-> "special_requirements",
     needs |-> {"special_requirements"}] }

\* C19: an optional section (contact person, email and phone lines, size
\* line, payment details block, annual increase line, additional terms and
\* special requirements blocks) is in the instruction text only if its field
\* is non-empty, and then shows the field; for an empty or absent field the
\* text has neither the section's header nor its content.
C19_SectionOnlyIfField ==
  Built =>
    \A sec \in OptionalSections :
      /\ Has(ret.value, sec.header) =>
           /\ \A key \in sec.needs : Populated(key)
           /\ IsPrefix(main_params[sec.field].text, After(ret.value, sec.header))
      /\ (\E key \in sec.needs : ~Populated(key)) => ~Has(ret.value, sec.header)
\* a contact person shown, an empty phone and an absent size left out, a
\* payment block without the line of the empty annual increase
C19_Witness ==
  /\ Built
  /\ Has(ret.value, "Kind attention: ")
  /\ main_params["contact_phone"] = Str(<<>>) /\ ~Has(ret.value, "Phone: ")
  /\ "size" \notin DOMAIN main_params /\ ~Has(ret.value, "Size of Advertising Space: ")
  /\ Has(ret.value, "Payment Details: - Type: ")
  /\ "annual_increase" \in DOMAIN main_params /\ ~Has(ret.value, "- Annual Increase: ")

\* the date the instruction text carries
EmittedDate == Between(ret.value, " Date: ", " Recipient:\n")
\* a calendar date as DD.MM.YYYY, any other non-empty value verbatim, the
\* current date for an absent or empty value
ExpectedDate ==
  IF ~Populated("date") THEN strftime(today, "%d.%m.%Y")
  ELSE IF main_params["date"].kind = "date" THEN strftime(main_params["date"].day, "%d.%m.%Y")
  ELSE main_params["date"].text
C20_Verbatim == Built /\ Populated("date") /\ EmittedDate = <<"next Monday">>
\* an empty date gives the current date
C20_EmptyDate ==
  /\ Built
  /\ "date" \in DOMAIN main_params
  /\ ~Populated("date")
  /\ EmittedDate = <<"%d.%m.%Y", ToString(today)>>

\* ------------------------------------------------ what the session sends
\* the instruction texts a generate_loa called now may build
NewInstructions ==
  IF variant = "app"
  THEN { construct_loa_prompt_app(params, today) : params \in AppParams }
  ELSE { construct_loa_prompt_main(main_params, today) }
\* the message is the request of the call that sends it
IsOwnRequest(m, op) ==
  /\ m.role = "user"
  /\ IF op = "generate_loa"
     THEN m.content \in NewInstructions
     ELSE \E edit_request \in EditRequests \cup {MainEditRequest} : m = EditMessage(edit_request)

\* C21: a generate_loa sends the system directive, its newly built
\* instruction and every Turn of the transcript it finds, in their stored
\* order, and nothing else; on a session without a letter it sends the
\* system directive and the new instruction only.
C21_GenerateCarriesTranscript ==
  [][Called("generate_loa") =>
       /\ apiCalls' = apiCalls + 1
       /\ Len(sent') = 2 + Len(conversation_history)
       /\ sent'[1] = Message("system", create_system_prompt)
       /\ IsOwnRequest(sent'[2], "generate_loa")
       /\ SubSeq(sent', 3, Len(sent')) = conversation_history
       /\ current_loa = None => Len(sent') = 2]_vars
\* a generate_loa on a session that holds a letter and the request of a
\* failed edit_loa has sent all three Turns
C21_Witness ==
  /\ Len(log) = 3
  /\ log[1] = Entry("generate_loa", "ok")
  /\ log[2] = Entry("edit_loa", "fail")
  /\ log[3].op = "generate_loa"
  /\ Len(sent) = 5
  /\ SubSeq(sent, 3, 4) = SubSeq(produced, 1, 2)
  /\ sent[5].role = "user"
\* a generate_loa on a fresh session has sent two messages
C21_FirstGenerate == Len(log) = 1 /\ log[1].op = "generate_loa" /\ Len(sent) = 2

\* C22: an operation whose service call fails leaves the transcript exactly
\* as it found it.
C22_FailureKeepsTranscript ==
  [][Ended("fail") => conversation_history' = conversation_history]_vars
\* what holds of the code: a failed generate_loa leaves the transcript as it
\* found it, a failed edit_loa leaves it with the edit request appended
C22_FailedEditKeepsRequest ==
  [][Ended("fail") =>
       IF Called("generate_loa")
       THEN conversation_history' = conversation_history
       ELSE /\ Len(conversation_history') = Len(conversation_history) + 1
            /\ IsPrefix(conversation_history, conversation_history')
            /\ IsOwnRequest(Last(conversation_history'), "edit_loa")]_vars
\* a failed edit_loa has left its request in the transcript
C22_FailedEdit ==
  /\ log = <<Entry("generate_loa", "ok"), Entry("edit_loa", "fail")>>
  /\ Len(conversation_history) = 3

\* the step is a call that contacts the service
CallsService == Len(log') = Len(log) + 1 /\ apiCalls' # apiCalls

\* C23: the last message of every message list sent, by generate_loa or by
\* edit_loa, is the request of the call that sends it.
C23_OwnRequestLast ==
  [][CallsService => IsOwnRequest(Last(sent'), Last(log').op)]_vars
\* what holds of the code: the request of an edit_loa is the last message; the
\* request of a generate_loa is the second, before the transcript, and so the
\* last only when the transcript is empty
C23_OwnRequestPlace ==
  [][CallsService =>
       IF Called("edit_loa")
       THEN IsOwnRequest(Last(sent'), "edit_loa")
       ELSE /\ IsOwnRequest(sent'[2], "generate_loa")
            /\ conversation_history # <<>> => Last(sent') = Last(conversation_history)]_vars
\* a second generate_loa has sent the letter of the first as its last message
C23_StaleTurnLast ==
  /\ Len(log) = 2
  /\ log[1] = Entry("generate_loa", "ok")
  /\ log[2].op = "generate_loa"
  /\ Last(sent) = produced[2]

\* C24: an edit_loa is rejected with the no-LOA message exactly when no
\* generate_loa has succeeded on the session; after a successful
\* generate_loa, whatever text it stored, every edit_loa contacts the service.
C24_RejectedIffNeverGenerated ==
  [][Called("edit_loa") =>
       /\ Ended("rejected") <=> ~GenerateSucceeded
       /\ GenerateSucceeded => apiCalls' = apiCalls + 1]_vars
\* what holds of the code: an edit_loa is rejected exactly when current_loa is
\* None or the empty text
C24_RejectedIffNoText ==
  [][Called("edit_loa") =>
       /\ Ended("rejected") <=> (current_loa = None \/ current_loa = Some(<<>>))
       /\ Ended("rejected") <=> apiCalls' = apiCalls]_vars
\* an edit_loa was rejected after a generate_loa that stored an empty text
C24_RejectedAfterGenerate ==
  /\ log = <<Entry("generate_loa", "ok"), Entry("edit_loa", "rejected")>>
  /\ current_loa = Some(<<>>)
  /\ ret = Returned(NoLoaMessage)
  /\ apiCalls = 1

\* the step is a generate_loa that succeeded
GenerateOk == Called("generate_loa") /\ Ended("ok")

\* C25: the request Turn a successful generate_loa stores is the instruction
\* it sent, also when the date changes while the service answers.
C25_StoredIsSent ==
  [][GenerateOk => conversation_history'[1] = sent'[2]]_vars
\* what holds of the code: the stored request is the instruction built anew
\* when the response is stored; it is the one sent when the date has not
\* changed meanwhile
C25_StoredIsRebuilt ==
  [][GenerateOk =>
       /\ conversation_history'[1].role = "user"
       /\ IF variant = "app"
          THEN \E params \in AppParams :
                 /\ sent'[2].content = construct_loa_prompt_app(params, today)
                 /\ conversation_history'[1].content = construct_loa_prompt_app(params, today')
          ELSE /\ sent'[2].content = construct_loa_prompt_main(main_params, today)
               /\ conversation_history'[1].content = construct_loa_prompt_main(main_params, today')
       /\ today' = today => conversation_history'[1] = sent'[2]]_vars
\* the stored request carries another date than the instruction sent
C25_DatesDiffer ==
  /\ log = <<Entry("generate_loa", "ok")>>
  /\ conversation_history[1] # sent[2]
  /\ today = 2

\* C26: the annual increase line is in the instruction text exactly when
\* annual_increase, payment_type and payment_amount are all non-empty, and
\* then shows the increase as a percentage; a non-empty annual_increase
\* leaves no trace when the payment type or amount is empty or absent.
C26_AnnualIncreaseNeedsPayment ==
  Built =>
    /\ Has(ret.value, "- Annual Increase: ")
         <=> \A key \in {"annual_increase", "payment_type", "payment_amount"} : Populated(key)
    /\ Has(ret.value, "- Annual Increase: ") =>
         IsPrefix(main_params["annual_increase"].text \o <<"%\n">>,
                  After(ret.value, "- Annual Increase: "))
\* an annual increase given with a payment amount but an empty payment type
\* is not in the text
C26_Witness ==
  /\ Built
  /\ Populated("annual_increase")
  /\ Populated("payment_amount")
  /\ "payment_type" \in DOMAIN main_params /\ ~Populated("payment_type")
  /\ ~Has(ret.value, "- Annual Increase: ")
  /\ ~Has(ret.value, "Payment Details: - Type: ")
\* an annual increase given with both payment fields is shown
C26_Shown ==
  /\ Built
  /\ Has(ret.value, "- Annual Increase: ")
  /\ IsPrefix(<<"5", "%\n">>, After(ret.value, "- Annual Increase: "))

====
